---- MODULE Spec2Model ----
(***************************************************************************)
(* golang-rest-api-template: the configuration service (config/config.go)  *)
(* and the process entrypoint (cmd/server/main.go).                        *)
(*                                                                         *)
(* A Go string is a sequence of one-character strings, so that             *)
(* strconv.Atoi is computed character by character.  A Go int is a record  *)
(* [neg, mag]: a sign and the decimal digits of the magnitude without      *)
(* leading zeros (zero is [neg |-> FALSE, mag |-> <<0>>]); the 64-bit      *)
(* limits are compared digit-wise, as they exceed the model checker's own  *)
(* integers.                                                               *)
(***************************************************************************)
EXTENDS Integers, Sequences, FiniteSets, TLC

VARIABLES
    env,        \* the process environment: key -> [exists, value]
    dotenv,     \* the .env file of the working directory
    cnf,        \* the Service
    pc,         \* where the thread inside Init/LoadConfig is: [fn, at]
    ret,        \* what the operation that just completed returned
    before,     \* the Service as it was when the running LoadConfig was entered
    sinceLoad,  \* "none": no LoadConfig has returned; "clean": one has and the
                \* environment is as it left it; "changed": it was changed since
    changes,    \* number of Setenv/Unsetenv calls so far
    args,       \* os.Args
    mpc,        \* where main is
    stdout,     \* lines written by fmt.Printf
    logs,       \* entries written through the application's logger
    exit,       \* <<status>> once the process has exited, <<>> while it runs
    app,        \* whether application.NewApplication() has been called
    initCalls,  \* number of calls of app.Initialize
    runCalls,   \* number of calls of app.Run
    initErr,    \* what app.Initialize returned
    runErr,     \* what app.Run returned
    envRead     \* whether the configuration was loaded (the environment read)

cfgVars == <<env, dotenv, cnf, pc, ret, before, sinceLoad, changes>>
mainVars == <<args, mpc, stdout, logs, exit, app, initCalls, runCalls, initErr, runErr, envRead>>
vars == <<env, dotenv, cnf, pc, ret, before, sinceLoad, changes,
          args, mpc, stdout, logs, exit, app, initCalls, runCalls, initErr, runErr, envRead>>

----------------------------------------------------------------------------
\* Bounds of the model.

\* Setenv/Unsetenv calls in one behaviour.
MaxEnvChanges == 1

\* Command-line arguments after the program name.
MaxArgs == 2

----------------------------------------------------------------------------
\* Strings and integers.

EmptyStr == <<>>

DigitChars == {"0", "1", "2", "3", "4", "5", "6", "7", "8", "9"}

DigitVal(c) ==
    CASE c = "0" -> 0 [] c = "1" -> 1 [] c = "2" -> 2 [] c = "3" -> 3
      [] c = "4" -> 4 [] c = "5" -> 5 [] c = "6" -> 6 [] c = "7" -> 7
      [] c = "8" -> 8 [] c = "9" -> 9

Zero == [neg |-> FALSE, mag |-> <<0>>]

\* 2^64 - 1, 2^63 and 2^63 - 1 as digits.
MaxUint64Mag == <<1,8,4,4,6,7,4,4,0,7,3,7,0,9,5,5,1,6,1,5>>
CutoffMag == <<9,2,2,3,3,7,2,0,3,6,8,5,4,7,7,5,8,0,8>>
MaxInt64Mag == <<9,2,2,3,3,7,2,0,3,6,8,5,4,7,7,5,8,0,7>>

RECURSIVE StripZeros(_)
StripZeros(m) ==
    IF Len(m) > 1 /\ m[1] = 0 THEN StripZeros(Tail(m)) ELSE m

RECURSIVE LexLess(_, _)
LexLess(a, b) ==
    IF a = <<>> THEN FALSE
    ELSE IF a[1] # b[1] THEN a[1] < b[1]
    ELSE LexLess(Tail(a), Tail(b))

\* a < b for magnitudes without leading zeros
MagLess(a, b) ==
    \/ Len(a) < Len(b)
    \/ Len(a) = Len(b) /\ LexLess(a, b)

\* n*10 + d
Times10Plus(n, d) == StripZeros(n \o <<d>>)

MkInt(neg, mag) == [neg |-> neg /\ mag # <<0>>, mag |-> mag]

\* strconv.ParseUint(s, 10, 64) from character i on, n the value so far:
\* a character that is no digit is a syntax error (value 0); the first digit
\* that takes the value over 2^64-1 is a range error (value 2^64-1).
RECURSIVE ParseUint(_, _, _)
ParseUint(s, i, n) ==
    IF i > Len(s) THEN [n |-> n, err |-> "nil"]
    ELSE IF s[i] \notin DigitChars THEN [n |-> <<0>>, err |-> "syntax"]
    ELSE LET n1 == Times10Plus(n, DigitVal(s[i]))
         IN IF MagLess(MaxUint64Mag, n1)
            THEN [n |-> MaxUint64Mag, err |-> "range"]
            ELSE ParseUint(s, i + 1, n1)

\* strconv.ParseInt(s, 10, 0) with 64-bit int
ParseInt(s) ==
    IF s = EmptyStr THEN [n |-> Zero, err |-> "syntax"]
    ELSE LET neg == s[1] = "-"
             body == IF s[1] \in {"+", "-"} THEN Tail(s) ELSE s
             u == IF body = EmptyStr THEN [n |-> <<0>>, err |-> "syntax"]
                  ELSE ParseUint(body, 1, <<0>>)
         IN IF u.err = "syntax" THEN [n |-> Zero, err |-> "syntax"]
            ELSE IF ~neg /\ ~MagLess(u.n, CutoffMag)
                 THEN [n |-> MkInt(FALSE, MaxInt64Mag), err |-> "range"]
            ELSE IF neg /\ MagLess(CutoffMag, u.n)
                 THEN [n |-> MkInt(TRUE, CutoffMag), err |-> "range"]
            ELSE [n |-> MkInt(neg, u.n), err |-> "nil"]

\* The fast path of strconv.Atoi (0 < len(s) < 19 on a 64-bit build): no
\* overflow is possible, a character that is no digit is a syntax error.
AtoiFast(s) ==
    LET body == IF s[1] \in {"+", "-"} THEN Tail(s) ELSE s
        u == ParseUint(body, 1, <<0>>)
    IN IF body = EmptyStr \/ u.err # "nil" THEN [n |-> Zero, err |-> "syntax"]
       ELSE [n |-> MkInt(s[1] = "-", u.n), err |-> "nil"]

\* strconv.Atoi(s): the value and the error
Atoi(s) ==
    IF 0 < Len(s) /\ Len(s) < 19 THEN AtoiFast(s) ELSE ParseInt(s)

----------------------------------------------------------------------------
\* The environment.

Keys == {"DB_HOST", "DB_PORT", "DB_USER", "DB_PASSWORD", "DB_NAME",
         "REDIS_HOST", "REDIS_PORT", "REDIS_PASSWORD", "REDIS_DB",
         "SERVER_ADDR", "SERVER_PORT", "JAEGER_AGENT_HOST", "JAEGER_AGENT_PORT"}

Unset == [exists |-> FALSE, value |-> EmptyStr]
Set(v) == [exists |-> TRUE, value |-> v]

EmptyEnv == [k \in Keys |-> Unset]

\* os.LookupEnv(key): the value and whether the variable is present
LookupEnv(e, key) == e[key]

\* os.Setenv / os.Unsetenv
SetenvIn(e, key, v) == [e EXCEPT ![key] = Set(v)]
UnsetenvIn(e, key) == [e EXCEPT ![key] = Unset]

\* godotenv.Load(): a missing .env file is an error, which LoadConfig drops;
\* otherwise each pair of the file is set in the process environment unless
\* the variable is already present there (Load never overrides).
GodotenvLoad(e, file) ==
    IF ~file.present THEN e
    ELSE [k \in Keys |->
            IF ~e[k].exists /\ file.vars[k].exists THEN file.vars[k] ELSE e[k]]

----------------------------------------------------------------------------
\* config.go

S_3306 == <<"3", "3", "0", "6">>
S_6379 == <<"6", "3", "7", "9">>
S_8080 == <<"8", "0", "8", "0">>
S_6831 == <<"6", "8", "3", "1">>
S_0 == <<"0">>
S_localhost == <<"l", "o", "c", "a", "l", "h", "o", "s", "t">>
S_user == <<"u", "s", "e", "r">>
S_password == <<"p", "a", "s", "s", "w", "o", "r", "d">>
S_mydatabase == <<"m", "y", "d", "a", "t", "a", "b", "a", "s", "e">>

ZeroDBConfig == [Host |-> EmptyStr, Port |-> EmptyStr, User |-> EmptyStr,
                 Password |-> EmptyStr, Name |-> EmptyStr]
ZeroRedisConfig == [Host |-> EmptyStr, Port |-> EmptyStr, Password |-> EmptyStr, DB |-> Zero]
ZeroServerConf == [Address |-> EmptyStr, Port |-> EmptyStr]
ZeroJaegerConfig == [AgentHost |-> EmptyStr, AgentPort |-> EmptyStr]

NewService ==
    [Name |-> "go-rest-api-template",
     dbEnv |-> ZeroDBConfig,
     redisEnv |-> ZeroRedisConfig,
     srvConfg |-> ZeroServerConf,
     jaegerConfig |-> ZeroJaegerConfig]

\* faulty variant: an empty value is taken as unset (os.Getenv instead of os.LookupEnv)
getEnvMutant(e, key, defaultValue) ==
    IF LookupEnv(e, key).value # EmptyStr THEN LookupEnv(e, key).value ELSE defaultValue
getEnv(e, key, defaultValue) ==
    IF LookupEnv(e, key).exists THEN LookupEnv(e, key).value ELSE defaultValue

\* The values LoadConfig stores, in the order it stores them.
LoadDBConfig(e) ==
    [Port |-> getEnv(e, "DB_PORT", S_3306),
     Host |-> getEnv(e, "DB_HOST", S_localhost),
     User |-> getEnv(e, "DB_USER", S_user),
     Password |-> getEnv(e, "DB_PASSWORD", S_password),
     Name |-> getEnv(e, "DB_NAME", S_mydatabase)]

LoadRedisConfig(e) ==
    LET redisDB == Atoi(getEnv(e, "REDIS_DB", S_0)).n
    IN [Host |-> getEnv(e, "REDIS_HOST", S_localhost),
        Port |-> getEnv(e, "REDIS_PORT", S_6379),
        Password |-> getEnv(e, "REDIS_PASSWORD", EmptyStr),
        DB |-> redisDB]

LoadServerConf(e) ==
    [Address |-> getEnv(e, "SERVER_ADDR", EmptyStr),
     Port |-> getEnv(e, "SERVER_PORT", S_8080)]

LoadJaegerConfig(e) ==
    [AgentHost |-> getEnv(e, "JAEGER_AGENT_HOST", S_localhost),
     AgentPort |-> getEnv(e, "JAEGER_AGENT_PORT", S_6831)]

GetDBConfig(c) == c.dbEnv
GetRedisConfig(c) == c.redisEnv
\* faulty variant: the accessor returns the group without its port
GetServerConfigMutant(c) == [Address |-> c.srvConfg.Address, Port |-> EmptyStr]
GetServerConfig(c) == c.srvConfg
GetJaegerConfig(c) == c.jaegerConfig

----------------------------------------------------------------------------
\* The inputs: the values the environment and the .env file are given.

S_dbhost == <<"d", "b", "h", "o", "s", "t">>
S_5432 == <<"5", "4", "3", "2">>

V_abc == <<"a", "b", "c">>
V_7 == <<"7">>
V_minus3 == <<"-", "3">>
V_007 == <<"0", "0", "7">>
V_12a == <<"1", "2", "a">>
V_maxInt64 == <<"9", "2", "2", "3", "3", "7", "2", "0", "3", "6", "8", "5", "4", "7", "7", "5", "8", "0", "7">>
V_maxInt64plus1 == <<"9", "2", "2", "3", "3", "7", "2", "0", "3", "6", "8", "5", "4", "7", "7", "5", "8", "0", "8">>
V_minInt64 == <<"-", "9", "2", "2", "3", "3", "7", "2", "0", "3", "6", "8", "5", "4", "7", "7", "5", "8", "0", "8">>
V_minInt64minus1 == <<"-", "9", "2", "2", "3", "3", "7", "2", "0", "3", "6", "8", "5", "4", "7", "7", "5", "8", "0", "9">>
V_20ninesA == <<"9", "9", "9", "9", "9", "9", "9", "9", "9", "9", "9", "9", "9", "9", "9", "9", "9", "9", "9", "9", "a">>

\* values of a string-typed variable
StrValues == {EmptyStr, S_dbhost}

\* values of REDIS_DB: well-formed, malformed, and at the limits of int
RedisDBValues == {EmptyStr, V_abc, V_7, V_minus3, V_007, V_12a,
                  V_maxInt64, V_maxInt64plus1, V_minInt64, V_minInt64minus1, V_20ninesA}

ValuesOf(k) == IF k = "REDIS_DB" THEN RedisDBValues ELSE StrValues

NoFile == [present |-> FALSE, vars |-> EmptyEnv]
FileOf(e) == [present |-> TRUE, vars |-> e]

\* the environments a process starts in: empty, and DB_HOST=dbhost REDIS_DB=abc
InitialEnvs ==
    {EmptyEnv, SetenvIn(SetenvIn(EmptyEnv, "DB_HOST", S_dbhost), "REDIS_DB", V_abc)}

\* the .env files: none, one that sets a port, one with an empty and a
\* malformed value
DotenvFiles ==
    {NoFile,
     FileOf(SetenvIn(EmptyEnv, "DB_PORT", S_5432)),
     FileOf(SetenvIn(SetenvIn(EmptyEnv, "SERVER_PORT", EmptyStr), "REDIS_DB", V_abc))}

----------------------------------------------------------------------------
\* The configuration service as a state machine.  One thread is inside
\* Init/LoadConfig (pc); the accessors may be called by another thread at any
\* moment: Service has no lock, and LoadConfig stores the four groups with
\* four separate assignments.  The environment is changed between calls.
\* What an accessor returned is held in ret until its caller has taken it
\* (Taken); no other step is interleaved between the two, which loses no
\* state, as an accessor changes nothing.

Idle == [fn |-> "none", at |-> "idle"]
NoRet == [op |-> "none", val |-> "none"]

MainIdle ==
    /\ args = <<"server">> /\ mpc = "start" /\ stdout = <<>> /\ logs = <<>>
    /\ exit = <<>> /\ app = FALSE /\ initCalls = 0 /\ runCalls = 0
    /\ initErr = "none" /\ runErr = "none" /\ envRead = FALSE

Init ==
    /\ env \in InitialEnvs
    /\ dotenv \in DotenvFiles
    /\ cnf = NewService
    /\ pc = Idle
    /\ ret = NoRet
    /\ before = NewService
    /\ sinceLoad = "none"
    /\ changes = 0
    /\ MainIdle

AccessorOps == {"GetDBConfig", "GetRedisConfig", "GetServerConfig", "GetJaegerConfig"}
Pending == ret.op \in AccessorOps

Touched(e1, e2) ==
    IF e1 # e2 /\ sinceLoad # "none" THEN "changed" ELSE sinceLoad

\* os.Setenv(k, v) by the process, between two calls of the service
Setenv(k, v) ==
    /\ pc = Idle
    /\ ~Pending
    /\ changes < MaxEnvChanges
    /\ env' = SetenvIn(env, k, v)
    /\ sinceLoad' = Touched(env, env')
    /\ changes' = changes + 1
    /\ ret' = NoRet
    /\ UNCHANGED <<dotenv, cnf, pc, before>>
    /\ UNCHANGED mainVars

\* os.Unsetenv(k)
Unsetenv(k) ==
    /\ pc = Idle
    /\ ~Pending
    /\ changes < MaxEnvChanges
    /\ env[k].exists
    /\ env' = UnsetenvIn(env, k)
    /\ sinceLoad' = Touched(env, env')
    /\ changes' = changes + 1
    /\ ret' = NoRet
    /\ UNCHANGED <<dotenv, cnf, pc, before>>
    /\ UNCHANGED mainVars

\* entry of LoadConfig: godotenv.Load(), its error dropped
EnterLoadConfig(fn) ==
    /\ pc = Idle
    /\ ~Pending
    /\ env' = GodotenvLoad(env, dotenv)
    /\ pc' = [fn |-> fn, at |-> "db"]
    /\ before' = cnf
    /\ ret' = NoRet
    /\ UNCHANGED <<dotenv, cnf, sinceLoad, changes>>
    /\ UNCHANGED mainVars

LoadConfig == EnterLoadConfig("LoadConfig")

\* Service.Init: return cnf.LoadConfig()
ServiceInit == EnterLoadConfig("Init")

\* the four assignments of LoadConfig
\* faulty variant: Host and Port exchanged
StoreDBMutant(c, e) == [c EXCEPT !.dbEnv = [LoadDBConfig(e) EXCEPT !.Host = LoadDBConfig(e).Port,
                                                                   !.Port = LoadDBConfig(e).Host]]
StoreDB(c, e) == [c EXCEPT !.dbEnv = LoadDBConfig(e)]

\* faulty variant: the host is appended to the stored one instead of replacing it
StoreRedisMutant(c, e) == [c EXCEPT !.redisEnv = [LoadRedisConfig(e) EXCEPT !.Host = c.redisEnv.Host \o @]]
StoreRedis(c, e) == [c EXCEPT !.redisEnv = LoadRedisConfig(e)]

\* faulty variant: the server group is never assigned
StoreServerMutant(c, e) == c
StoreServer(c, e) == [c EXCEPT !.srvConfg = LoadServerConf(e)]

StoreJaeger(c, e) == [c EXCEPT !.jaegerConfig = LoadJaegerConfig(e)]

Step(from, to, c) ==
    /\ pc.at = from
    /\ ~Pending
    /\ pc' = [pc EXCEPT !.at = to]
    /\ cnf' = c
    /\ ret' = NoRet
    /\ UNCHANGED <<env, dotenv, before, sinceLoad, changes>>
    /\ UNCHANGED mainVars

AssignDBEnv == Step("db", "redis", StoreDB(cnf, env))
AssignRedisEnv == Step("redis", "srv", StoreRedis(cnf, env))
AssignSrvConfg == Step("srv", "jaeger", StoreServer(cnf, env))
AssignJaegerConfig == Step("jaeger", "ret", StoreJaeger(cnf, env))

\* return nil
ReturnNil ==
    /\ pc.at = "ret"
    /\ ~Pending
    /\ pc' = Idle
    /\ ret' = [op |-> pc.fn, val |-> "nil"]
    /\ sinceLoad' = "clean"
    /\ before' = cnf
    /\ UNCHANGED <<env, dotenv, cnf, changes>>
    /\ UNCHANGED mainVars

\* What a read of a group that races with the assignment of that group can
\* return: each field as it was or as it is being stored.
RacyDB(old, new) ==
    {[Host |-> h, Port |-> p, User |-> u, Password |-> w, Name |-> n] :
        h \in {old.Host, new.Host}, p \in {old.Port, new.Port}, u \in {old.User, new.User},
        w \in {old.Password, new.Password}, n \in {old.Name, new.Name}}
RacyRedis(old, new) ==
    {[Host |-> h, Port |-> p, Password |-> w, DB |-> d] :
        h \in {old.Host, new.Host}, p \in {old.Port, new.Port},
        w \in {old.Password, new.Password}, d \in {old.DB, new.DB}}
RacyServer(old, new) ==
    {[Address |-> a, Port |-> p] : a \in {old.Address, new.Address}, p \in {old.Port, new.Port}}
RacyJaeger(old, new) ==
    {[AgentHost |-> h, AgentPort |-> p] :
        h \in {old.AgentHost, new.AgentHost}, p \in {old.AgentPort, new.AgentPort}}

Returns(op, vals) ==
    /\ ~Pending
    /\ \E v \in vals : ret' = [op |-> op, val |-> v]
    /\ UNCHANGED <<env, dotenv, cnf, pc, before, sinceLoad, changes>>
    /\ UNCHANGED mainVars

CallGetDBConfig ==
    Returns("GetDBConfig",
            IF pc.at = "db" THEN RacyDB(GetDBConfig(cnf), GetDBConfig(StoreDB(cnf, env)))
            ELSE {GetDBConfig(cnf)})

\* faulty variant: the accessor resolves the group from the environment again and stores it
CallGetRedisConfigMutant ==
    /\ ~Pending
    /\ ret' = [op |-> "GetRedisConfig", val |-> LoadRedisConfig(env)]
    /\ cnf' = StoreRedis(cnf, env)
    /\ UNCHANGED <<env, dotenv, pc, before, sinceLoad, changes>>
    /\ UNCHANGED mainVars
CallGetRedisConfig ==
    Returns("GetRedisConfig",
            IF pc.at = "redis" THEN RacyRedis(GetRedisConfig(cnf), GetRedisConfig(StoreRedis(cnf, env)))
            ELSE {GetRedisConfig(cnf)})

CallGetServerConfig ==
    Returns("GetServerConfig",
            IF pc.at = "srv" THEN RacyServer(GetServerConfig(cnf), GetServerConfig(StoreServer(cnf, env)))
            ELSE {GetServerConfig(cnf)})

CallGetJaegerConfig ==
    Returns("GetJaegerConfig",
            IF pc.at = "jaeger" THEN RacyJaeger(GetJaegerConfig(cnf), GetJaegerConfig(StoreJaeger(cnf, env)))
            ELSE {GetJaegerConfig(cnf)})

\* the caller of an accessor has taken what it returned
Taken ==
    /\ Pending
    /\ ret' = NoRet
    /\ UNCHANGED <<env, dotenv, cnf, pc, before, sinceLoad, changes>>
    /\ UNCHANGED mainVars

Next ==
    \/ \E k \in Keys : \E v \in ValuesOf(k) : Setenv(k, v)
    \/ \E k \in Keys : Unsetenv(k)
    \/ LoadConfig
    \/ ServiceInit
    \/ AssignDBEnv
    \/ AssignRedisEnv
    \/ AssignSrvConfg
    \/ AssignJaegerConfig
    \/ ReturnNil
    \/ CallGetDBConfig
    \/ CallGetRedisConfig
    \/ CallGetServerConfig
    \/ CallGetJaegerConfig
    \/ Taken

Spec == Init /\ [][Next]_vars

----------------------------------------------------------------------------
\* cmd/server/main.go.  The application package is not part of the sources;
\* what main needs of it is modelled from its contract: Initialize and Run
\* return nil or an error, the logger's Fatal writes the entry and ends the
\* process with a non-zero status.

ArgWords == {"--version", "-v", "serve"}

RECURSIVE ArgLists(_)
ArgLists(n) ==
    IF n = 0 THEN {<<>>}
    ELSE ArgLists(n - 1) \cup {Append(a, w) : a \in {b \in ArgLists(n - 1) : Len(b) = n - 1}, w \in ArgWords}

\* os.Args: the program name, then at most MaxArgs arguments
ArgVectors == {<<"server">> \o a : a \in ArgLists(MaxArgs)}

InitializeErrors == {"logger construction failed", "database connection failed"}
RunErrors == {"listen failed", "shutdown failed"}

version == "dev"
commit == "none"
date == "unknown"

\* len(os.Args) > 1 && (os.Args[1] == "--version" || os.Args[1] == "-v");
\* os.Args[0] is args[1] here
\* faulty variant: the flag is looked for in every argument
IsVersionFlagMutant(a) == \E i \in 2..Len(a) : a[i] = "--version" \/ a[i] = "-v"
IsVersionFlag(a) == Len(a) > 1 /\ (a[2] = "--version" \/ a[2] = "-v")

\* app.Initialize(): nil or an error; it loads the configuration unless it
\* failed before doing so
Initialize(r, read) ==
    /\ r \in {"nil"} \cup InitializeErrors
    /\ read \in BOOLEAN
    /\ r = "nil" => read

\* app.Run(): nil on a clean shutdown, or an error
Run(r) == r \in {"nil"} \cup RunErrors

\* app.GetLogger().Fatal(msg, "error", err): the entry, then the process ends
LoggerFatal(msg, err) ==
    /\ logs' = Append(logs, [level |-> "fatal", msg |-> msg, error |-> err])
    /\ exit' = <<1>>
    /\ mpc' = "exited"

\* app.GetLogger().Info(msg, ...)
LoggerInfo(msg) ==
    logs' = Append(logs, [level |-> "info", msg |-> msg, error |-> "none"])

CfgIdle ==
    /\ env = EmptyEnv /\ dotenv = NoFile /\ cnf = NewService /\ pc = Idle
    /\ ret = NoRet /\ before = NewService /\ sinceLoad = "none" /\ changes = 0

MainInit ==
    /\ args \in ArgVectors
    /\ mpc = "start"
    /\ stdout = <<>>
    /\ logs = <<>>
    /\ exit = <<>>
    /\ app = FALSE
    /\ initCalls = 0
    /\ runCalls = 0
    /\ initErr = "none"
    /\ runErr = "none"
    /\ envRead = FALSE
    /\ CfgIdle

\* line 43
MainCheckVersionFlag ==
    /\ mpc = "start"
    /\ mpc' = IF IsVersionFlag(args) THEN "printVersion" ELSE "newApplication"
    /\ UNCHANGED <<args, stdout, logs, exit, app, initCalls, runCalls, initErr, runErr, envRead>>
    /\ UNCHANGED cfgVars

Printf(at, next, format, arg) ==
    /\ mpc = at
    /\ stdout' = Append(stdout, [format |-> format, arg |-> arg])
    /\ mpc' = next
    /\ UNCHANGED <<args, logs, exit, app, initCalls, runCalls, initErr, runErr, envRead>>
    /\ UNCHANGED cfgVars

\* lines 44-46
MainPrintVersion == Printf("printVersion", "printCommit", "golang-rest-api-template %s\n", version)
MainPrintCommit == Printf("printCommit", "printDate", "  commit: %s\n", commit)
MainPrintDate == Printf("printDate", "exit0", "  built:  %s\n", date)

\* line 47: os.Exit(0)
MainExit0 ==
    /\ mpc = "exit0"
    /\ exit' = <<0>>
    /\ mpc' = "exited"
    /\ UNCHANGED <<args, stdout, logs, app, initCalls, runCalls, initErr, runErr, envRead>>
    /\ UNCHANGED cfgVars

\* line 51
MainNewApplication ==
    /\ mpc = "newApplication"
    /\ app' = TRUE
    /\ mpc' = "initialize"
    /\ UNCHANGED <<args, stdout, logs, exit, initCalls, runCalls, initErr, runErr, envRead>>
    /\ UNCHANGED cfgVars

\* line 54: err := app.Initialize(); err != nil
MainInitialize ==
    /\ mpc = "initialize"
    /\ \E r \in {"nil"} \cup InitializeErrors, read \in BOOLEAN :
        /\ Initialize(r, read)
        /\ initErr' = r
        /\ envRead' = read
        /\ mpc' = IF r # "nil" THEN "initializeFailed" ELSE "logStarting"
    /\ initCalls' = initCalls + 1
    /\ UNCHANGED <<args, stdout, logs, exit, app, runCalls, runErr>>
    /\ UNCHANGED cfgVars

\* line 55
\* faulty variant: the error is logged at error level and main goes on
MainInitializeFailedMutant ==
    /\ mpc = "initializeFailed"
    /\ logs' = Append(logs, [level |-> "error", msg |-> "failed to initialize application", error |-> initErr])
    /\ mpc' = "logStarting"
    /\ UNCHANGED <<args, stdout, exit, app, initCalls, runCalls, initErr, runErr, envRead>>
    /\ UNCHANGED cfgVars
MainInitializeFailed ==
    /\ mpc = "initializeFailed"
    /\ LoggerFatal("failed to initialize application", initErr)
    /\ UNCHANGED <<args, stdout, app, initCalls, runCalls, initErr, runErr, envRead>>
    /\ UNCHANGED cfgVars

\* lines 59-63
MainLogStarting ==
    /\ mpc = "logStarting"
    /\ LoggerInfo("starting application")
    /\ mpc' = "run"
    /\ UNCHANGED <<args, stdout, exit, app, initCalls, runCalls, initErr, runErr, envRead>>
    /\ UNCHANGED cfgVars

\* line 66: err := app.Run(); err != nil
MainRun ==
    /\ mpc = "run"
    /\ \E r \in {"nil"} \cup RunErrors :
        /\ Run(r)
        /\ runErr' = r
        /\ mpc' = IF r # "nil" THEN "runFailed" ELSE "return"
    /\ runCalls' = runCalls + 1
    /\ UNCHANGED <<args, stdout, logs, exit, app, initCalls, initErr, envRead>>
    /\ UNCHANGED cfgVars

\* line 67
\* faulty variant: the error is logged at error level and main returns
MainRunFailedMutant ==
    /\ mpc = "runFailed"
    /\ logs' = Append(logs, [level |-> "error", msg |-> "application failed", error |-> runErr])
    /\ mpc' = "return"
    /\ UNCHANGED <<args, stdout, exit, app, initCalls, runCalls, initErr, runErr, envRead>>
    /\ UNCHANGED cfgVars
MainRunFailed ==
    /\ mpc = "runFailed"
    /\ LoggerFatal("application failed", runErr)
    /\ UNCHANGED <<args, stdout, app, initCalls, runCalls, initErr, runErr, envRead>>
    /\ UNCHANGED cfgVars

\* line 69: main returns, the process ends with status 0
MainReturn ==
    /\ mpc = "return"
    /\ exit' = <<0>>
    /\ mpc' = "exited"
    /\ UNCHANGED <<args, stdout, logs, app, initCalls, runCalls, initErr, runErr, envRead>>
    /\ UNCHANGED cfgVars

MainNext ==
    \/ MainCheckVersionFlag
    \/ MainPrintVersion
    \/ MainPrintCommit
    \/ MainPrintDate
    \/ MainExit0
    \/ MainNewApplication
    \/ MainInitialize
    \/ MainInitializeFailed
    \/ MainLogStarting
    \/ MainRun
    \/ MainRunFailed
    \/ MainReturn

MainSpec == MainInit /\ [][MainNext]_vars

----------------------------------------------------------------------------
\* What the claims are stated with.

\* the documented default of each variable
DocumentedDefault(k) ==
    CASE k = "DB_HOST" -> S_localhost
      [] k = "DB_PORT" -> S_3306
      [] k = "DB_USER" -> S_user
      [] k = "DB_PASSWORD" -> S_password
      [] k = "DB_NAME" -> S_mydatabase
      [] k = "REDIS_HOST" -> S_localhost
      [] k = "REDIS_PORT" -> S_6379
      [] k = "REDIS_PASSWORD" -> EmptyStr
      [] k = "REDIS_DB" -> S_0
      [] k = "SERVER_ADDR" -> EmptyStr
      [] k = "SERVER_PORT" -> S_8080
      [] k = "JAEGER_AGENT_HOST" -> S_localhost
      [] k = "JAEGER_AGENT_PORT" -> S_6831

\* the field that belongs to each variable
FieldOf(c, k) ==
    CASE k = "DB_HOST" -> c.dbEnv.Host
      [] k = "DB_PORT" -> c.dbEnv.Port
      [] k = "DB_USER" -> c.dbEnv.User
      [] k = "DB_PASSWORD" -> c.dbEnv.Password
      [] k = "DB_NAME" -> c.dbEnv.Name
      [] k = "REDIS_HOST" -> c.redisEnv.Host
      [] k = "REDIS_PORT" -> c.redisEnv.Port
      [] k = "REDIS_PASSWORD" -> c.redisEnv.Password
      [] k = "REDIS_DB" -> c.redisEnv.DB
      [] k = "SERVER_ADDR" -> c.srvConfg.Address
      [] k = "SERVER_PORT" -> c.srvConfg.Port
      [] k = "JAEGER_AGENT_HOST" -> c.jaegerConfig.AgentHost
      [] k = "JAEGER_AGENT_PORT" -> c.jaegerConfig.AgentPort

StringKeys == Keys \ {"REDIS_DB"}

\* s is a decimal integer: an optional sign, then one digit or more
Unsigned(s) == IF s # EmptyStr /\ s[1] \in {"+", "-"} THEN Tail(s) ELSE s
IsDecimal(s) ==
    /\ Unsigned(s) # EmptyStr
    /\ \A i \in 1..Len(Unsigned(s)) : Unsigned(s)[i] \in DigitChars

\* the number a decimal integer denotes
Denoted(s) ==
    LET mag == StripZeros([i \in 1..Len(Unsigned(s)) |-> DigitVal(Unsigned(s)[i])])
    IN [neg |-> s[1] = "-" /\ mag # <<0>>, mag |-> mag]

\* n is in -2^63 .. 2^63-1
InIntRange(n) ==
    IF n.neg THEN ~MagLess(CutoffMag, n.mag) ELSE MagLess(n.mag, CutoffMag)

ValidInt(s) == IsDecimal(s) /\ InIntRange(Denoted(s))

AtReturn == pc.at = "ret"

\* every string-typed field holds the variable's value, or the default when
\* the variable is unset
StringFieldsResolved ==
    \A k \in StringKeys :
        FieldOf(cnf, k) = IF env[k].exists THEN env[k].value ELSE DocumentedDefault(k)

\* C1: when LoadConfig returns, each field holds the documented default if
\* its variable is unset and exactly the variable's value if it is set (for
\* REDIS_DB: the integer a valid value denotes), whatever the other
\* variables are.
C1_DefaultOrValue ==
    AtReturn =>
        /\ StringFieldsResolved
        /\ ~env["REDIS_DB"].exists => cnf.redisEnv.DB = Zero
        /\ env["REDIS_DB"].exists /\ ValidInt(env["REDIS_DB"].value)
              => cnf.redisEnv.DB = Denoted(env["REDIS_DB"].value)

C1_Witness ==
    /\ AtReturn
    /\ env["DB_HOST"] = Set(S_dbhost)
    /\ ~env["DB_PORT"].exists
    /\ env["REDIS_DB"] = Set(V_minInt64)
    /\ cnf.redisEnv.DB = [neg |-> TRUE, mag |-> CutoffMag]

\* C2: a LoadConfig that follows a LoadConfig with the environment unchanged
\* in between leaves the Service as the first one left it.
C2_Idempotent ==
    AtReturn /\ sinceLoad = "clean" => cnf = before

C2_Witness ==
    /\ AtReturn
    /\ sinceLoad = "clean"
    /\ env["REDIS_DB"].exists
    /\ dotenv.present

\* C3: when REDIS_DB is set to something that is not a valid integer,
\* LoadConfig stores 0 in RedisConfig.DB and resolves every other field as usual.
C3_MalformedIsZero ==
    AtReturn /\ env["REDIS_DB"].exists /\ ~ValidInt(env["REDIS_DB"].value)
        => cnf.redisEnv.DB = Zero /\ StringFieldsResolved

\* C10: a variable that is present with the empty string as its value
\* resolves to the empty string (REDIS_DB to 0), not to the default: a field
\* of a present variable holds the default only if that is the variable's value.
C10_SetNotEmpty ==
    AtReturn =>
        /\ \A k \in StringKeys :
              env[k].exists => /\ env[k].value = EmptyStr => FieldOf(cnf, k) = EmptyStr
                               /\ FieldOf(cnf, k) = DocumentedDefault(k)
                                     => env[k].value = DocumentedDefault(k)
        /\ env["REDIS_DB"] = Set(EmptyStr) => cnf.redisEnv.DB = Zero

C10_Witness ==
    /\ AtReturn
    /\ env["SERVER_PORT"] = Set(EmptyStr)
    /\ env["DB_NAME"] = Set(EmptyStr)
    /\ cnf.srvConfg.Port = EmptyStr

\* the group an accessor reads, its zero value, and what LoadConfig stores in it
GroupOf(c, op) ==
    CASE op = "GetDBConfig" -> c.dbEnv
      [] op = "GetRedisConfig" -> c.redisEnv
      [] op = "GetServerConfig" -> c.srvConfg
      [] op = "GetJaegerConfig" -> c.jaegerConfig
ZeroOf(op) ==
    CASE op = "GetDBConfig" -> ZeroDBConfig
      [] op = "GetRedisConfig" -> ZeroRedisConfig
      [] op = "GetServerConfig" -> ZeroServerConf
      [] op = "GetJaegerConfig" -> ZeroJaegerConfig
LoadedOf(e, op) ==
    CASE op = "GetDBConfig" -> LoadDBConfig(e)
      [] op = "GetRedisConfig" -> LoadRedisConfig(e)
      [] op = "GetServerConfig" -> LoadServerConf(e)
      [] op = "GetJaegerConfig" -> LoadJaegerConfig(e)

\* C6: an accessor called while no LoadConfig is running changes neither the
\* Service nor the environment and returns the group as the Service holds it:
\* the zero value before any LoadConfig, the whole group LoadConfig stored
\* after one.
C6_AccessorsPure ==
    [][~Pending /\ Pending' =>
          /\ cnf' = cnf
          /\ env' = env
          /\ pc = Idle =>
                /\ ret'.val = GroupOf(cnf, ret'.op)
                /\ sinceLoad = "none" => ret'.val = ZeroOf(ret'.op)
                /\ sinceLoad = "clean" => ret'.val = LoadedOf(env, ret'.op)]_vars

C6_Witness ==
    /\ Pending
    /\ pc = Idle
    /\ sinceLoad = "clean"
    /\ ret.op = "GetServerConfig"
    /\ ret.val = [Address |-> EmptyStr, Port |-> S_dbhost]

\* C7 as claimed: once a LoadConfig has returned, the Service never changes.
C7_ImmutableOnceLoaded ==
    [][sinceLoad # "none" => cnf' = cnf]_vars

\* C7 amended: once a LoadConfig has returned, the Service changes only in
\* the assignments of a later Init/LoadConfig, each of which stores the
\* group resolved from the environment as it is then; the accessors and
\* changes of the environment leave it as it is.
C7_ChangedOnlyByReload ==
    [][sinceLoad # "none" /\ cnf' # cnf =>
          /\ pc.at \in {"db", "redis", "srv", "jaeger"}
          /\ pc'.at # pc.at
          /\ env' = env
          /\ cnf'.Name = cnf.Name
          /\ \A op \in AccessorOps :
                GroupOf(cnf', op) \in {GroupOf(cnf, op), LoadedOf(env, op)}]_vars

C7_Witness ==
    /\ AtReturn
    /\ sinceLoad = "changed"
    /\ cnf.dbEnv # before.dbEnv
    /\ cnf.redisEnv = before.redisEnv

\* C8 as claimed: at every moment the four groups are all as they were
\* before the running LoadConfig or all as it leaves them.
C8_AtomicLoad ==
    \/ \A op \in AccessorOps : GroupOf(cnf, op) = GroupOf(before, op)
    \/ \A op \in AccessorOps : GroupOf(cnf, op) = LoadedOf(env, op)

\* the groups LoadConfig has stored when it is at each of its places
StoredAt(at) ==
    CASE at = "idle" -> {}
      [] at = "db" -> {}
      [] at = "redis" -> {"GetDBConfig"}
      [] at = "srv" -> {"GetDBConfig", "GetRedisConfig"}
      [] at = "jaeger" -> {"GetDBConfig", "GetRedisConfig", "GetServerConfig"}
      [] at = "ret" -> AccessorOps

\* C8 amended: LoadConfig stores the groups one after the other (database,
\* Redis, server, Jaeger): during the call the groups stored so far are as
\* resolved from the environment and the others as before the call, and
\* when it returns all four are as resolved.
C8_StoredInOrder ==
    \A op \in AccessorOps :
        GroupOf(cnf, op) = IF op \in StoredAt(pc.at) THEN LoadedOf(env, op)
                           ELSE GroupOf(before, op)

C8_Witness ==
    /\ pc.at = "srv"
    /\ cnf.dbEnv # before.dbEnv
    /\ cnf.redisEnv # before.redisEnv
    /\ cnf.srvConfg # LoadServerConf(env)
    /\ cnf.jaegerConfig # LoadJaegerConfig(env)

----------------------------------------------------------------------------
\* The entrypoint's claims, under MainSpec.

\* the first argument is --version or -v
VersionQuery == Len(args) >= 2 /\ args[2] \in {"--version", "-v"}

Exited == mpc = "exited"

IsError(e) == e \notin {"none", "nil"}

\* a fatal entry with this error text has been logged
FatalLogged(e) ==
    \E i \in 1..Len(logs) : logs[i].level = "fatal" /\ logs[i].error = e

\* C4: a version query prints the three lines and exits with status 0
\* without constructing the application, calling Initialize or Run, or
\* loading the configuration; any other invocation prints none of them and
\* goes on to construct the application and call Initialize.
C4_VersionQuery ==
    /\ VersionQuery =>
          /\ ~app /\ initCalls = 0 /\ runCalls = 0 /\ ~envRead /\ logs = <<>>
          /\ mpc \notin {"newApplication", "initialize", "initializeFailed",
                         "logStarting", "run", "runFailed", "return"}
          /\ Exited => /\ exit = <<0>>
                       /\ stdout = <<[format |-> "golang-rest-api-template %s\n", arg |-> "dev"],
                                     [format |-> "  commit: %s\n", arg |-> "none"],
                                     [format |-> "  built:  %s\n", arg |-> "unknown"]>>
    /\ ~VersionQuery =>
          /\ stdout = <<>>
          /\ mpc \notin {"printVersion", "printCommit", "printDate", "exit0"}
          /\ Exited => app /\ initCalls = 1

C4_Witness ==
    /\ Exited
    /\ args = <<"server", "-v", "serve">>
    /\ Len(stdout) = 3
    /\ exit = <<0>>

\* C5: the exit status is 0 exactly for a version query and for a Run that
\* returned nil; when Initialize or Run returned an error it is non-zero and
\* a fatal entry with the error's text has been logged.
C5_ExitStatus ==
    /\ exit # <<>> <=> Exited
    /\ Exited =>
          /\ exit = <<0>> <=> (VersionQuery \/ runErr = "nil")
          /\ IsError(initErr) => exit \notin {<<>>, <<0>>} /\ FatalLogged(initErr)
          /\ IsError(runErr) => exit \notin {<<>>, <<0>>} /\ FatalLogged(runErr)

C5_Witness ==
    /\ Exited
    /\ runErr = "shutdown failed"
    /\ exit = <<1>>
    /\ Len(logs) = 2

\* C9: Initialize is called once, before Run; Run is called at most once and
\* only after Initialize returned nil; when Initialize fails the process
\* ends without Run and without the 'starting application' entry.
C9_InitializeThenRun ==
    /\ initCalls <= 1
    /\ runCalls <= 1
    /\ runCalls = 1 => initCalls = 1 /\ initErr = "nil"
    /\ mpc \in {"logStarting", "run", "runFailed", "return"} => initCalls = 1 /\ initErr = "nil"
    /\ IsError(initErr) =>
          /\ runCalls = 0
          /\ \A i \in 1..Len(logs) : logs[i].msg # "starting application"
          /\ mpc \in {"initializeFailed", "exited"}
    /\ Exited /\ ~VersionQuery => initCalls = 1

C9_Witness ==
    /\ Exited
    /\ initErr = "logger construction failed"
    /\ runCalls = 0
    /\ exit = <<1>>

====
